---- MODULE Spec2Model ----
(***************************************************************************)
(* PCI configuration-space access, BAR probing, the driver registry and    *)
(* the enumeration sweep of aero_kernel/src/drivers/pci.rs.                *)
(*                                                                         *)
(* A u32 is the set of the positions (0..31, bit 0 the least significant)  *)
(* of its 1 bits: TLC's integers stop at 2^31-1, and every configuration   *)
(* address has bit 31 set.                                                 *)
(***************************************************************************)
EXTENDS Integers, Sequences, FiniteSets, TLC

\* ------------------------------------------------------------ bounds
\* Highest bus number of the modelled machine (255 on the real one: the bus
\* is a u8).  The sweep's loop bound is written in terms of it, see BusLoopEnd.
MaxBus == 1
\* Highest BAR slot index passed to get_bar.
MaxBar == 2
\* Total number of register_device_driver calls made by the boot contexts.
MaxRegs == 2
\* Number of accessor-method calls each accessor context makes.
MaxCalls == 2

\* ------------------------------------------------------------ u32 as bit sets
Zero32 == {}

Ones32 == 0..31

\* The u32 with the value n, for 0 <= n < 2^31.
NatToWord(n) == {i \in 0..30 : (n \div (2^i)) % 2 = 1}

\* The u32 hi * 2^16 + lo, from its two 16-bit halves.
W(hi, lo) ==
    {i \in 0..15 : (lo \div (2^i)) % 2 = 1} \cup {i \in 16..31 : (hi \div (2^(i - 16))) % 2 = 1}

RECURSIVE FieldNat(_, _, _)
\* The number held in bits lo..hi-1 of w (hi - lo <= 30).
FieldNat(w, lo, hi) ==
    IF lo >= hi THEN 0 ELSE (IF lo \in w THEN 1 ELSE 0) + 2 * FieldNat(w, lo + 1, hi)

\* bit_field::BitField::get_bits(lo..hi): the field, shifted down to bit 0.
GetBits(w, lo, hi) == {i - lo : i \in {j \in w : lo <= j /\ j < hi}}

\* bit_field::BitField::get_bit(i).
GetBit(w, i) == i \in w

\* bit_field::BitField::set_bits(lo..hi, v): bits lo..hi-1 of w take the low bits of v.
SetBits(w, lo, hi, v) ==
    {j \in w : j < lo \/ j >= hi} \cup {i + lo : i \in {j \in v : j + lo < hi}}

\* w << n on a u32: the bits shifted past bit 31 are lost.
Shl(w, n) == {i + n : i \in {j \in w : j + n <= 31}}

BitOr(a, b) == a \cup b

BitAnd(a, b) == a \cap b

\* u32::trailing_zeros: 32 for the value 0.
TrailingZeros(w) ==
    IF w = {} THEN 32 ELSE CHOOSE n \in w : \A j \in w : n <= j

\* `x as u8` of a u32.
AsU8(w) == GetBits(w, 0, 8)

\* `x as u64` of a u32: a set of bit positions in 0..63.
AsU64(w) == w

\* A u64 whose high half is left as it is.
SetHigh64Keep(w64, v) == w64

\* set_bits(32..64, v) on a u64.
SetHigh64(w64, v) == {j \in w64 : j < 32} \cup {i + 32 : i \in v}

\* ------------------------------------------------------------ classification tables
\* The arms of DeviceType::new, in source order: <<base class, sub-class, variant>>.
DeviceTypeArms == <<
    <<0, 0, "LegacyNotVgaCompatible">>, <<0, 1, "LegacyVgaCompatible">>,
    <<1, 0, "ScsiBusController">>, <<1, 1, "IdeController">>, <<1, 2, "FloppyController">>,
    <<1, 3, "IpiBusController">>, <<1, 4, "RaidController">>, <<1, 5, "AtaController">>,
    <<1, 6, "SataController">>, <<1, 7, "SasController">>,
    <<1, 128, "OtherMassStorageController">>, <<2, 0, "EthernetController">>,
    <<2, 1, "TokenRingController">>, <<2, 2, "FddiController">>, <<2, 3, "AtmController">>,
    <<2, 4, "IsdnController">>, <<2, 6, "PicmgController">>,
    <<2, 128, "OtherNetworkController">>, <<3, 0, "VgaCompatibleController">>,
    <<3, 1, "XgaController">>, <<3, 2, "ThreeDController">>,
    <<3, 128, "OtherDisplayController">>, <<4, 0, "VideoDevice">>, <<4, 1, "AudioDevice">>,
    <<4, 2, "TelephonyDevice">>, <<4, 3, "OtherMultimediaDevice">>, <<5, 0, "RamController">>,
    <<5, 1, "FlashController">>, <<5, 2, "OtherMemoryController">>, <<6, 0, "HostBridge">>,
    <<6, 1, "IsaBridge">>, <<6, 2, "EisaBridge">>, <<6, 3, "McaBridge">>,
    <<6, 4, "PciPciBridge">>, <<6, 5, "PcmciaBridge">>, <<6, 6, "NuBusBridge">>,
    <<6, 7, "CardBusBridge">>, <<6, 8, "RacewayBridge">>,
    <<6, 9, "SemiTransparentPciPciBridge">>, <<6, 10, "InfinibandPciHostBridge">>,
    <<6, 128, "OtherBridgeDevice">>, <<7, 0, "SerialController">>, <<7, 1, "ParallelPort">>,
    <<7, 2, "MultiportSerialController">>, <<7, 3, "Modem">>, <<7, 4, "GpibController">>,
    <<7, 5, "SmartCard">>, <<7, 128, "OtherCommunicationsDevice">>,
    <<8, 0, "InterruptController">>, <<8, 1, "DmaController">>, <<8, 2, "SystemTimer">>,
    <<8, 3, "RtcController">>, <<8, 4, "GenericPciHotPlugController">>,
    <<8, 5, "SdHostController">>, <<8, 128, "OtherSystemPeripheral">>,
    <<9, 0, "KeyboardController">>, <<9, 1, "Digitizer">>, <<9, 2, "MouseController">>,
    <<9, 3, "ScannerController">>, <<9, 4, "GameportController">>,
    <<9, 128, "OtherInputController">>, <<10, 0, "GenericDockingStation">>,
    <<10, 128, "OtherDockingStation">>, <<11, 0, "Processor386">>, <<11, 1, "Processor486">>,
    <<11, 2, "ProcessorPentium">>, <<11, 16, "ProcessorAlpha">>,
    <<11, 32, "ProcessorPowerPc">>, <<11, 48, "ProcessorMips">>, <<11, 64, "CoProcessor">>,
    <<12, 0, "FirewireController">>, <<12, 1, "AccessBusController">>,
    <<12, 2, "SsaBusController">>, <<12, 3, "UsbController">>,
    <<12, 4, "FibreChannelController">>, <<12, 5, "SmBusController">>,
    <<12, 6, "InfiniBandController">>, <<12, 7, "IpmiController">>,
    <<12, 8, "SercosController">>, <<12, 9, "CanBusController">>, <<13, 0, "IrdaController">>,
    <<13, 1, "ConsumerIrController">>, <<13, 16, "RfController">>,
    <<13, 17, "BluetoothController">>, <<13, 18, "BroadbandController">>,
    <<13, 32, "Ethernet5GHzController">>, <<13, 33, "Ethernet24GHzController">>,
    <<13, 128, "OtherWirelessController">>, <<14, 0, "IntelligentIoController">>,
    <<15, 0, "TvSatelliteCommunicationsController">>,
    <<15, 1, "AudioSatelliteCommunicationsController">>,
    <<15, 2, "VoiceSatelliteCommunicationsController">>,
    <<15, 3, "DataSatelliteCommunicationsController">>, <<16, 0, "NetworkCryptionController">>,
    <<16, 16, "EntertainmentCryptionController">>, <<16, 128, "OtherCryptionController">>,
    <<17, 0, "DpioModule">>, <<17, 1, "PerformanceCounter">>,
    <<17, 16, "CommunicationsSynchronizationController">>, <<17, 32, "ManagementCard">>,
    <<17, 128, "OtherSignalProcessingController">>
    >>

\* DeviceType::new: the first arm that matches, Unknown when none does.
DeviceTypeNew(base_class, sub_class) ==
    LET hits == {k \in 1..Len(DeviceTypeArms) :
                    DeviceTypeArms[k][1] = base_class /\ DeviceTypeArms[k][2] = sub_class}
    IN  IF hits = {} THEN "Unknown"
        ELSE DeviceTypeArms[CHOOSE k \in hits : \A j \in hits : k <= j][3]

\* A classification whose catch-all variant drops the raw id.
VendorNewOpaque(id) ==
    CASE id = 32902 -> [variant |-> "Intel"]
      [] id = 4130 -> [variant |-> "AMD"]
      [] id = 4318 -> [variant |-> "NVIDIA"]
      [] id = 4660 -> [variant |-> "Qemu"]
      [] OTHER -> [variant |-> "Unknown", id |-> 0]

\* Vendor::new.  The ids are 0x8086, 0x1022, 0x10DE and 0x1234.
VendorNew(id) ==
    CASE id = 32902 -> [variant |-> "Intel"]
      [] id = 4130 -> [variant |-> "AMD"]
      [] id = 4318 -> [variant |-> "NVIDIA"]
      [] id = 4660 -> [variant |-> "Qemu"]
      [] OTHER -> [variant |-> "Unknown", id |-> id]

\* ------------------------------------------------------------ PciHeader
\* A header whose device field is 4 bits wide.
PciHeaderNewNarrow(bus, device, function) ==
    LET r1 == SetBits(Zero32, 0, 3, NatToWord(function))
        r2 == SetBits(r1, 3, 7, NatToWord(device))
        r3 == SetBits(r2, 8, 16, NatToWord(bus))
    IN  SetBits(r3, 16, 32, Zero32)

\* PciHeader::new(bus, device, function).
PciHeaderNew(bus, device, function) ==
    LET r1 == SetBits(Zero32, 0, 3, NatToWord(function))
        r2 == SetBits(r1, 3, 8, NatToWord(device))
        r3 == SetBits(r2, 8, 16, NatToWord(bus))
    IN  SetBits(r3, 16, 32, Zero32)

\* PciHeader::bus, ::device, ::function (each `as u8`).
HeaderBus(self) == AsU8(GetBits(self, 8, 16))

HeaderDevice(self) == AsU8(GetBits(self, 3, 8))

HeaderFunction(self) == AsU8(GetBits(self, 0, 3))

\* 0x80000000, the enable bit of the address word.
EnableBit == W(32768, 0)

\* 0xFC, the mask applied to the register offset.
OffsetMask == W(0, 252)

\* The address word with the offset masked by 0xFF instead of 0xFC.
ConfigAddressWideMask(self, offset) ==
    BitOr(BitOr(BitOr(BitOr(Shl(HeaderBus(self), 16), Shl(HeaderDevice(self), 11)),
                      Shl(HeaderFunction(self), 8)),
                BitAnd(NatToWord(offset), W(0, 255))),
          EnableBit)

\* The address word that PciHeader::read and PciHeader::write compute.
ConfigAddress(self, offset) ==
    BitOr(BitOr(BitOr(BitOr(Shl(HeaderBus(self), 16), Shl(HeaderDevice(self), 11)),
                      Shl(HeaderFunction(self), 8)),
                BitAnd(NatToWord(offset), OffsetMask)),
          EnableBit)

\* ------------------------------------------------------------ the hardware behind the ports
\* One configuration register: its reset value and the bits software can change.
Reg(val, wmask) == [val |-> val, wmask |-> wmask]

\* The identity registers of a function: 0x00 device/vendor id, 0x04 status/command,
\* 0x08 class/sub-class/programming interface/revision, 0x0C with the header type
\* in bits 16..23 (bit 23 is the multi-function flag).
IdRegs(vendor, devid, base, sub, command, multi) ==
    (0 :> Reg(W(devid, vendor), Zero32))
    @@ (4 :> Reg(W(16, command), W(0, 1351)))
    @@ (8 :> Reg(W(base * 256 + sub, 1), Zero32))
    @@ (12 :> Reg(W(IF multi THEN 128 ELSE 0, 0), Zero32))

\* BAR contents of the function that the accessor contexts work on.
\* "barsA": slot 0 a prefetchable 32-bit memory window of 4 KiB at 0xFEB00000,
\*          slot 1 an I/O window of 32 ports at 0xC000, slot 2 unimplemented.
\* "barsB": slots 0/1 a prefetchable 64-bit memory window of 16 KiB at
\*          0x4_C0000000 (slot 1 holds the high dword, all of it writable),
\*          slot 2 a memory window with the reserved width encoding 01.
\* "barsC": slots 0/1 a prefetchable 64-bit memory window of 8 GiB at 0x2_00000000
\*          (no address bit of the low dword is writable), slot 2 unimplemented.
BarRegs(layout) ==
    IF layout = "barsA"
    THEN (16 :> Reg(W(65200, 8), W(65535, 61440)))
         @@ (20 :> Reg(W(0, 49153), W(0, 65504)))
         @@ (24 :> Reg(Zero32, Zero32))
    ELSE IF layout = "barsB"
    THEN (16 :> Reg(W(49152, 12), W(65535, 49152)))
         @@ (20 :> Reg(W(0, 4), Ones32))
         @@ (24 :> Reg(W(14, 2), W(15, 0)))
    ELSE (16 :> Reg(W(0, 12), Zero32))
         @@ (20 :> Reg(W(0, 2), W(65535, 65534)))
         @@ (24 :> Reg(Zero32, Zero32))

\* The machines of the model: function address <<bus, device, function>> -> registers.
\* Every address outside the domain is an empty slot.
Board(b) ==
    CASE b = "barsA" ->
            (<<0, 3, 0>> :> (IdRegs(32902, 10530, 1, 6, 3, FALSE) @@ BarRegs("barsA")))
      [] b = "barsB" ->
            (<<0, 3, 0>> :> (IdRegs(4130, 30721, 1, 6, 7, FALSE) @@ BarRegs("barsB")))
      [] b = "barsC" ->
            (<<0, 3, 0>> :> (IdRegs(4318, 7000, 3, 0, 3, FALSE) @@ BarRegs("barsC")))
      \* A host bridge, a device of an unlisted vendor (0x5555) and class (0x12, 0x34),
      \* and a multi-function device with a SATA controller and an SMBus controller.
      [] b = "desktop" ->
            (<<0, 0, 0>> :> IdRegs(32902, 4663, 6, 0, 7, FALSE))
            @@ (<<0, 5, 0>> :> IdRegs(21845, 1, 18, 52, 7, FALSE))
            @@ (<<0, 31, 0>> :> IdRegs(32902, 10530, 1, 6, 3, TRUE))
            @@ (<<0, 31, 3>> :> IdRegs(32902, 10544, 12, 5, 3, FALSE))
      \* A VGA function 1 behind an absent function 0, and an Ethernet controller
      \* on the highest bus.
      [] b = "behind" ->
            (<<0, 2, 1>> :> IdRegs(4660, 4369, 3, 0, 3, FALSE))
            @@ (<<MaxBus, 0, 0>> :> IdRegs(4130, 8192, 2, 0, 3, FALSE))

\* The function and the register that an address word selects.
FnKey(a) == <<FieldNat(a, 16, 24), FieldNat(a, 11, 16), FieldNat(a, 8, 11)>>

RegOffset(a) == 4 * FieldNat(a, 2, 8)

\* A read of the data port with address word a latched: all-ones from an empty
\* slot (or with the enable bit clear), zero from a register that is not implemented.
ConfigRead(regs, a) ==
    IF 31 \notin a \/ FnKey(a) \notin DOMAIN regs THEN Ones32
    ELSE IF RegOffset(a) \in DOMAIN regs[FnKey(a)] THEN regs[FnKey(a)][RegOffset(a)]
    ELSE Zero32

\* A write of v to the data port: only the writable bits of the register take it.
ConfigWrite(b, regs, a, v) ==
    IF 31 \notin a \/ FnKey(a) \notin DOMAIN regs \/ RegOffset(a) \notin DOMAIN regs[FnKey(a)]
    THEN regs
    ELSE LET k == FnKey(a)
             o == RegOffset(a)
             m == Board(b)[k][o].wmask
         IN  [regs EXCEPT ![k][o] = (v \cap m) \cup (@ \ m)]

\* ------------------------------------------------------------ state
Contexts == {"init", "ctxA", "ctxB"}

VARIABLES
    board,      \* the machine (never changes)
    cfg,        \* function address -> register offset -> current value
    addrPort,   \* the word latched at port 0xCF8
    pend,       \* context -> "none", or the data-port access ("read", "write") it owes
    wval,       \* context -> the value of its pending write
    ret,        \* context -> the value its last read returned
    req,        \* context -> the header, offset and address word of its last access
    pc,         \* context -> program point
    acc,        \* context -> locals of the accessor method it runs
    snap,       \* context -> the registers as they were when its method was called
    left,       \* context -> number of accessor-method calls it still makes
    lock,       \* holder of the PCI_TABLE spin mutex, or "free"
    want,       \* context -> the handle it is registering
    table,      \* PCI_TABLE.inner: the registered handles, in order
    regs,       \* register_device_driver calls: number made / returned, number made per handle
    sw,         \* locals of init: bus, device, function, function_count, driver index
    calls,      \* every handles/start invocation so far, in order
    probes,     \* the sweep's vendor-id probes: their number, the last address, the functions found
    pure,       \* a call of a pure function: which one, its input, its output
    server,     \* the system server: services, its RwLock, the state of each calling thread
    netdev      \* a NetworkDevice: metadata, its RwLock, the state of each calling thread

hwVars == <<board, cfg, addrPort>>

camVars == <<pend, wval, ret, req>>

accVars == <<acc, snap, left>>

regVars == <<lock, want, table, regs>>

sweepVars == <<sw, calls, probes>>

\* The state outside the PCI driver.
libVars == <<pure, server, netdev>>

\* The state of the PCI driver.
pciVars == <<board, cfg, addrPort, pend, wval, ret, req, pc, acc, snap, left, lock, want, table, regs, sw, calls, probes>>

vars == <<board, cfg, addrPort, pend, wval, ret, req, pc, acc, snap, left, lock, want, table, regs, sw, calls, probes, pure, server, netdev>>

\* ------------------------------------------------------------ PciHeader::read / ::write
\* io::outl(PCI_CONFIG_ADDRESS_PORT, address): the first port operation of read
\* (kind "read") and of write (kind "write" with its value).
OutAddress(c, self, offset, kind, value) ==
    /\ addrPort' = ConfigAddress(self, offset)
    /\ pend' = [pend EXCEPT ![c] = kind]
    /\ wval' = [wval EXCEPT ![c] = value]
    /\ req' = [req EXCEPT ![c] = [self |-> self, offset |-> offset,
                                  address |-> ConfigAddress(self, offset)]]

\* io::inl(PCI_CONFIG_DATA_PORT): the second port operation of read.
DataIn(c) ==
    /\ pend[c] = "read"
    /\ ret' = [ret EXCEPT ![c] = ConfigRead(cfg, addrPort)]
    /\ pend' = [pend EXCEPT ![c] = "none"]
    /\ UNCHANGED <<board, cfg, addrPort, wval, req, pc, accVars>>
    /\ UNCHANGED <<regVars, sweepVars, libVars>>

\* io::outl(PCI_CONFIG_DATA_PORT, value): the second port operation of write.
DataOut(c) ==
    /\ pend[c] = "write"
    /\ cfg' = ConfigWrite(board, cfg, addrPort, wval[c])
    /\ pend' = [pend EXCEPT ![c] = "none"]
    /\ UNCHANGED <<board, addrPort, wval, ret, req, pc, accVars>>
    /\ UNCHANGED <<regVars, sweepVars, libVars>>

\* ------------------------------------------------------------ accessor methods
\* The functions the accessor contexts address: the one that is present on the
\* "bars" machines, and the highest function address there is (an empty slot).
AccTargets == {<<0, 3, 0>>, <<255, 31, 7>>}

\* The header of the function <<bus, device, function>>.
HeaderOf(t) == PciHeaderNew(t[1], t[2], t[3])

NoBar == [kind |-> "None"]

AccInit ==
    [op |-> "none", fn |-> <<0, 0, 0>>, self |-> Zero32, bar |-> 0, offset |-> 0, raw |-> Zero32,
     prefetchable |-> FALSE, address |-> Zero32, readback |-> Zero32, result |-> NoBar]

\* What a method leaves unchanged besides the ports and its own locals.
AccFrame == UNCHANGED <<board, cfg, ret, snap, left>> /\ UNCHANGED <<regVars, sweepVars, libVars>>

\* The start of a method call by context c.
Calling(c) ==
    /\ pc[c] = "idle" /\ pend[c] = "none" /\ left[c] > 0
    /\ left' = [left EXCEPT ![c] = @ - 1]
    /\ UNCHANGED <<board, cfg, ret>> /\ UNCHANGED <<regVars, sweepVars, libVars>>

\* A step that performs no port operation.
NoPort == UNCHANGED <<addrPort, pend, wval, req>>

\* get_vendor_id: self.read(0x00) ...
GetVendorIdCall(c, t) ==
    /\ Calling(c)
    /\ OutAddress(c, HeaderOf(t), 0, "read", Zero32)
    /\ acc' = [acc EXCEPT ![c] = [AccInit EXCEPT !.op = "get_vendor_id", !.fn = t,
                                                 !.self = HeaderOf(t)]]
    /\ pc' = [pc EXCEPT ![c] = "vid"]
    /\ UNCHANGED snap

\* ... and id.get_bits(0..16).
GetVendorIdRet(c) ==
    /\ pc[c] = "vid" /\ pend[c] = "none"
    /\ acc' = [acc EXCEPT ![c].result = GetBits(ret[c], 0, 16)]
    /\ pc' = [pc EXCEPT ![c] = "idle"]
    /\ NoPort /\ AccFrame

\* The mask 1 << 1.
BusMasterBitOne == Shl(NatToWord(1), 1)

\* `1 << 2`, the bus-mastering bit of the command register.
BusMasterBit == Shl(NatToWord(1), 2)

\* enable_bus_mastering: let command = self.read(0x04) ...
EnableBusMasteringCall(c, t) ==
    /\ Calling(c)
    /\ OutAddress(c, HeaderOf(t), 4, "read", Zero32)
    /\ acc' = [acc EXCEPT ![c] = [AccInit EXCEPT !.op = "enable_bus_mastering", !.fn = t,
                                                 !.self = HeaderOf(t)]]
    /\ snap' = [snap EXCEPT ![c] = cfg]
    /\ pc' = [pc EXCEPT ![c] = "bm_read"]

\* ... if (command & (1 << 2)) == 0 { self.write(0x04, command | (1 << 2)) }.
EnableBusMasteringTest(c) ==
    /\ pc[c] = "bm_read" /\ pend[c] = "none"
    /\ IF BitAnd(ret[c], BusMasterBit) = Zero32
       THEN /\ OutAddress(c, acc[c].self, 4, "write", BitOr(ret[c], BusMasterBit))
            /\ pc' = [pc EXCEPT ![c] = "bm_write"]
       ELSE /\ pc' = [pc EXCEPT ![c] = "idle"]
            /\ NoPort
    /\ acc' = [acc EXCEPT ![c].raw = ret[c]]
    /\ AccFrame

EnableBusMasteringRet(c) ==
    /\ pc[c] = "bm_write" /\ pend[c] = "none"
    /\ pc' = [pc EXCEPT ![c] = "idle"]
    /\ UNCHANGED acc
    /\ NoPort /\ AccFrame

\* get_bar: let offset = 0x10 + (bar as u16) * 4; let bar = self.read(offset.into()).
GetBarCall(c, t, bar) ==
    /\ Calling(c)
    /\ OutAddress(c, HeaderOf(t), 16 + bar * 4, "read", Zero32)
    /\ acc' = [acc EXCEPT ![c] = [AccInit EXCEPT !.op = "get_bar", !.fn = t,
                                                 !.self = HeaderOf(t),
                                                 !.bar = bar, !.offset = 16 + bar * 4]]
    /\ snap' = [snap EXCEPT ![c] = cfg]
    /\ pc' = [pc EXCEPT ![c] = "bar_raw"]

\* The value written back to the slot after the probe (line 489).
RestoreValue(raw, address) == address

\* if !bar.get_bit(0) { prefetchable, address; self.write(offset, 0xFFFFFFFF) ... }
\* else { Some(Bar::IO(bar.get_bits(2..32))) }.
GetBarDecode(c) ==
    /\ pc[c] = "bar_raw" /\ pend[c] = "none"
    /\ IF ~GetBit(ret[c], 0)
       THEN /\ acc' = [acc EXCEPT ![c].raw = ret[c],
                                  ![c].prefetchable = GetBit(ret[c], 3),
                                  ![c].address = Shl(GetBits(ret[c], 4, 32), 4)]
            /\ OutAddress(c, acc[c].self, acc[c].offset, "write", Ones32)
            /\ pc' = [pc EXCEPT ![c] = "bar_probe"]
       ELSE /\ acc' = [acc EXCEPT ![c].raw = ret[c],
                                  ![c].result = [kind |-> "IO", port |-> GetBits(ret[c], 2, 32)]]
            /\ pc' = [pc EXCEPT ![c] = "idle"]
            /\ NoPort
    /\ AccFrame

\* let mut readback = self.read(offset.into()): the address-port half.
GetBarProbe(c) ==
    /\ pc[c] = "bar_probe" /\ pend[c] = "none"
    /\ OutAddress(c, acc[c].self, acc[c].offset, "read", Zero32)
    /\ pc' = [pc EXCEPT ![c] = "bar_readback"]
    /\ UNCHANGED acc
    /\ AccFrame

\* readback arrives; self.write(offset.into(), address).
GetBarRestore(c) ==
    /\ pc[c] = "bar_readback" /\ pend[c] = "none"
    /\ acc' = [acc EXCEPT ![c].readback = ret[c]]
    /\ OutAddress(c, acc[c].self, acc[c].offset, "write",
                  RestoreValue(acc[c].raw, acc[c].address))
    /\ pc' = [pc EXCEPT ![c] = "bar_restore"]
    /\ AccFrame

\* A BAR taken for unimplemented when its readback is all-ones.
UnimplementedOnes(readback) == readback = Ones32

\* `readback == 0x0`: the BAR is not implemented.
Unimplemented(readback) == readback = Zero32

\* readback.set_bits(0..4, 0).
MaskedReadback(readback) == SetBits(readback, 0, 4, Zero32)

\* 1 << n on a u32 for n < 32.
SizeOf(n) == Shl(NatToWord(1), n)

\* if readback == 0 { return None }; size = 1 << readback.trailing_zeros();
\* match bar.get_bits(1..3) { 0b00 => Memory32, 0b10 => read the next slot, _ => None }.
\* A shift by 32 (no bit set above bit 3) is an arithmetic overflow: a panic in a
\* build with overflow checks, a shift by 32 & 31 = 0 in one without.
GetBarSize(c) ==
    /\ pc[c] = "bar_restore" /\ pend[c] = "none"
    /\ LET a == acc[c]
           tz == TrailingZeros(MaskedReadback(a.readback))
           width == FieldNat(a.raw, 1, 3)
           Finish(size) ==
               IF width = 2
               THEN /\ OutAddress(c, a.self, a.offset + 4, "read", Zero32)
                    /\ acc' = [acc EXCEPT ![c].result = [kind |-> "Pending", size |-> size]]
                    /\ pc' = [pc EXCEPT ![c] = "bar_high"]
               ELSE /\ acc' = [acc EXCEPT ![c].result =
                                  IF width = 0
                                  THEN [kind |-> "Memory32", address |-> a.address,
                                        size |-> size, prefetchable |-> a.prefetchable]
                                  ELSE NoBar]
                    /\ pc' = [pc EXCEPT ![c] = "idle"]
                    /\ NoPort
       IN  IF Unimplemented(a.readback)
           THEN /\ acc' = [acc EXCEPT ![c].result = NoBar]
                /\ pc' = [pc EXCEPT ![c] = "idle"]
                /\ NoPort
           ELSE IF tz < 32 THEN Finish(SizeOf(tz))
           ELSE \/ Finish(SizeOf(0))
                \/ /\ acc' = [acc EXCEPT ![c].result = [kind |-> "Panic"]]
                   /\ pc' = [pc EXCEPT ![c] = "panic"]
                   /\ NoPort
    /\ AccFrame

\* address.set_bits(32..64, self.read((offset + 4).into()) as u64); Some(Bar::Memory64 {..}).
GetBarHigh(c) ==
    /\ pc[c] = "bar_high" /\ pend[c] = "none"
    /\ acc' = [acc EXCEPT ![c].result =
                  [kind |-> "Memory64",
                   address |-> SetHigh64(AsU64(acc[c].address), ret[c]),
                   size |-> AsU64(acc[c].result.size),
                   prefetchable |-> acc[c].prefetchable]]
    /\ pc' = [pc EXCEPT ![c] = "idle"]
    /\ NoPort /\ AccFrame

\* Register offsets handed to read and write directly: 0x06, 0x3D, 0x43, 0xFF.
RawOffsets == {6, 61, 67, 255}

\* self.read(offset) on its own: the address-port half ...
ReadCall(c, t, offset) ==
    /\ Calling(c)
    /\ OutAddress(c, HeaderOf(t), offset, "read", Zero32)
    /\ acc' = [acc EXCEPT ![c] = [AccInit EXCEPT !.op = "read", !.fn = t,
                                                 !.self = HeaderOf(t), !.offset = offset]]
    /\ pc' = [pc EXCEPT ![c] = "raw"]
    /\ UNCHANGED snap

\* self.write(offset, value) on its own: the address-port half ...
WriteCall(c, t, offset, value) ==
    /\ Calling(c)
    /\ OutAddress(c, HeaderOf(t), offset, "write", value)
    /\ acc' = [acc EXCEPT ![c] = [AccInit EXCEPT !.op = "write", !.fn = t,
                                                 !.self = HeaderOf(t), !.offset = offset]]
    /\ pc' = [pc EXCEPT ![c] = "raw"]
    /\ UNCHANGED snap

\* ... and the return, once the data port has been accessed.
RawRet(c) ==
    /\ pc[c] = "raw" /\ pend[c] = "none"
    /\ acc' = [acc EXCEPT ![c].result = IF acc[c].op = "read" THEN ret[c] ELSE NoBar]
    /\ pc' = [pc EXCEPT ![c] = "idle"]
    /\ NoPort /\ AccFrame

\* One step of a context that calls read and write with any offset.
RawAccess(c) ==
    \/ \E t \in AccTargets, offset \in RawOffsets : ReadCall(c, t, offset)
    \/ \E t \in AccTargets, offset \in RawOffsets : WriteCall(c, t, offset, Ones32)
    \/ RawRet(c)

\* One step of a context that calls the accessor methods.
Accessor(c) ==
    \/ \E t \in AccTargets : GetVendorIdCall(c, t)
    \/ GetVendorIdRet(c)
    \/ \E t \in AccTargets : EnableBusMasteringCall(c, t)
    \/ EnableBusMasteringTest(c)
    \/ EnableBusMasteringRet(c)
    \/ \E t \in AccTargets, bar \in 0..MaxBar : GetBarCall(c, t, bar)
    \/ GetBarDecode(c)
    \/ GetBarProbe(c)
    \/ GetBarRestore(c)
    \/ GetBarSize(c)
    \/ GetBarHigh(c)
    \/ DataIn(c)
    \/ DataOut(c)

\* ------------------------------------------------------------ the driver registry
\* The drivers of the model (implementations of PciDeviceHandle).
Handles == {"sata", "any", "nest"}

\* PciDeviceHandle::handles of each driver.
DriverHandles(h, vendor, device_type) ==
    CASE h = "sata" -> vendor.variant = "Intel" /\ device_type = "SataController"
      [] h = "any" -> TRUE
      [] h = "nest" -> vendor.variant = "Qemu"

\* Whether the driver's PciDeviceHandle::start calls register_device_driver
\* (it then registers the handle "any"); the other drivers' start just returns.
DriverStartRegisters(h) == h = "nest"

\* A push that skips a handle the registry already holds.
PushedUnique(t, h) == IF \E i \in DOMAIN t : t[i] = h THEN t ELSE Append(t, h)

\* Vec::push.
Pushed(t, h) == Append(t, h)

\* A guard that is never dropped: the mutex stays with its holder.
UnlockedNever(c) == c

\* The mutex once context c has dropped its guard.
Unlocked(c) == "free"

\* A lock that never makes its caller wait.
CanLockAlways(c) == TRUE

\* SpinMutex::lock succeeds only while no context, the caller included, holds the mutex.
CanLock(c) == lock = "free"

\* A loop that passes over the driver after one that did not match.
NextDriverSkip(idx, len) == idx + 2

\* The index of the driver the loop turns to after driver idx of len did not match.
NextDriver(idx, len) == idx + 1

\* A loop that ends with the first start call.
AfterStartBreak(idx, len) == len + 1

\* The index of the driver the loop turns to after the start action of driver idx.
AfterStart(idx, len) == idx + 1

RegFrame == UNCHANGED <<hwVars, camVars, accVars, libVars>>

\* A boot context calls register_device_driver(handle).
RegisterCall(c, h) ==
    /\ pc[c] = "idle" /\ regs.called < MaxRegs
    /\ want' = [want EXCEPT ![c] = h]
    /\ regs' = [regs EXCEPT !.called = @ + 1, !.asked[h] = @ + 1]
    /\ pc' = [pc EXCEPT ![c] = "reg_lock"]
    /\ UNCHANGED <<lock, table, sweepVars>>
    /\ RegFrame

\* PCI_TABLE.lock(): the caller spins until the mutex is free.
RegisterLock(c) ==
    /\ pc[c] = "reg_lock" /\ CanLock(c)
    /\ lock' = c
    /\ pc' = [pc EXCEPT ![c] = "reg_push"]
    /\ UNCHANGED <<want, table, regs, sweepVars>>
    /\ RegFrame

\* .inner.push(PciDevice { handle }), the guard is dropped and the call returns
\* (to the sweep's driver loop when it was made from a start action).
RegisterPush(c) ==
    /\ pc[c] = "reg_push"
    /\ table' = Pushed(table, want[c])
    /\ lock' = Unlocked(c)
    /\ regs' = [regs EXCEPT !.returned = @ + 1]
    /\ pc' = [pc EXCEPT ![c] = IF c = "init" THEN "drivers" ELSE "idle"]
    /\ sw' = IF c = "init" THEN [sw EXCEPT !.idx = AfterStart(@, Len(table'))] ELSE sw
    /\ UNCHANGED <<want, calls, probes>>
    /\ RegFrame

\* One step of a context that registers drivers.
Registrar(c) ==
    \/ \E h \in Handles : RegisterCall(c, h)
    \/ RegisterLock(c)
    \/ RegisterPush(c)

\* ------------------------------------------------------------ init: the sweep
\* `for bus in 0..255`: the end of the range is the highest bus number.
BusLoopEnd == MaxBus

\* `for device in 0..32`.
DeviceLoopEnd == 32

\* function_count of a multi-function and of a single-function device.
MultiFunctionCount == 8

SingleFunctionCount == 1

\* The vendor id of an empty slot.
NoDevice == 65535

\* The multi-function flag looked for in the low byte of the dword.
HasMultipleFunctionsLowByte(dword) == GetBit(dword, 7)

\* A multi-function test that takes the all-ones answer of an empty slot for "no".
HasMultipleFunctionsPresent(dword) == GetBit(dword, 23) /\ dword # Ones32

\* has_multiple_functions: self.read(0x0c).get_bit(23), on the dword read.
HasMultipleFunctions(dword) == GetBit(dword, 23)

\* A sentinel test against 0 instead of 0xFFFF.
IsAbsentZero(vendor_id) == vendor_id = 0

\* `device.get_vendor_id() == 0xFFFF`.
IsAbsent(vendor_id) == vendor_id = NoDevice

Here(s) == <<s.bus, s.device, s.function>>

SweepFrame == UNCHANGED <<board, cfg, ret, accVars, want, regs, libVars>>

\* The vendor-id probe of the function s points at: device.get_vendor_id(), address half.
ProbeAt(s) ==
    /\ sw' = s
    /\ OutAddress("init", PciHeaderNew(s.bus, s.device, s.function), 0, "read", Zero32)
    /\ probes' = [probes EXCEPT !.count = @ + 1, !.last = Here(s)]
    /\ pc' = [pc EXCEPT !["init"] = "probe"]

\* PciHeader::new(bus, device, 0x00).has_multiple_functions(), address half.
HeaderAt(s) ==
    /\ sw' = s
    /\ OutAddress("init", PciHeaderNew(s.bus, s.device, 0), 12, "read", Zero32)
    /\ pc' = [pc EXCEPT !["init"] = "hdr"]
    /\ UNCHANGED probes

\* A function loop that starts over at function 0 after the last function.
AdvanceWrap == ProbeAt([sw EXCEPT !.function = (@ + 1) % MultiFunctionCount])

\* The loop heads: the next function, else the next device, else the next bus,
\* else the sweep is over.
Advance ==
    IF sw.function + 1 < sw.function_count
    THEN ProbeAt([sw EXCEPT !.function = @ + 1])
    ELSE IF sw.device + 1 < DeviceLoopEnd
    THEN HeaderAt([sw EXCEPT !.device = @ + 1, !.function = 0])
    ELSE IF sw.bus + 1 < BusLoopEnd
    THEN HeaderAt([sw EXCEPT !.bus = @ + 1, !.device = 0, !.function = 0])
    ELSE /\ pc' = [pc EXCEPT !["init"] = "done"]
         /\ NoPort
         /\ UNCHANGED <<sw, probes>>

\* init is called: (the MCFG entry count is read and dropped,) the loops start.
InitStart ==
    /\ pc["init"] = "boot"
    /\ HeaderAt([sw EXCEPT !.bus = 0, !.device = 0, !.function = 0])
    /\ UNCHANGED <<lock, table, calls>>
    /\ SweepFrame

\* function_count is decided by bit 23 of the header dword; the loop over the
\* functions starts with the probe of function 0.
SweepHeaderType ==
    /\ pc["init"] = "hdr" /\ pend["init"] = "none"
    /\ ProbeAt([sw EXCEPT !.function_count = IF HasMultipleFunctions(ret["init"])
                                              THEN MultiFunctionCount
                                              ELSE SingleFunctionCount,
                          !.function = 0])
    /\ UNCHANGED <<lock, table, calls>>
    /\ SweepFrame

\* The vendor id arrives: 0xFFFF skips the function, anything else goes on to
\* the log line, which reads device.get_device() first.
SweepProbe ==
    /\ pc["init"] = "probe" /\ pend["init"] = "none"
    /\ LET vendor_id == FieldNat(GetBits(ret["init"], 0, 16), 0, 16)
       IN  IF IsAbsent(vendor_id)
           THEN Advance
           ELSE /\ sw' = [sw EXCEPT !.vendor_id = vendor_id]
                /\ OutAddress("init", PciHeaderNew(sw.bus, sw.device, sw.function), 8,
                              "read", Zero32)
                /\ probes' = [probes EXCEPT !.found = @ \cup {Here(sw)}]
                /\ pc' = [pc EXCEPT !["init"] = "log_device"]
    /\ UNCHANGED <<lock, table, calls>>
    /\ SweepFrame

\* The log line's second argument: device.get_vendor().
SweepLogVendor ==
    /\ pc["init"] = "log_device" /\ pend["init"] = "none"
    /\ OutAddress("init", PciHeaderNew(sw.bus, sw.device, sw.function), 0, "read", Zero32)
    /\ pc' = [pc EXCEPT !["init"] = "log_vendor"]
    /\ UNCHANGED <<lock, table, sweepVars>>
    /\ SweepFrame

\* `for driver in &mut PCI_TABLE.lock().inner`: the guard lives until the loop ends.
SweepLock ==
    /\ pc["init"] = "log_vendor" /\ pend["init"] = "none"
    /\ CanLock("init")
    /\ lock' = "init"
    /\ sw' = [sw EXCEPT !.idx = 1]
    /\ pc' = [pc EXCEPT !["init"] = "drivers"]
    /\ NoPort
    /\ UNCHANGED <<table, calls, probes>>
    /\ SweepFrame

\* The loop over the drivers: the next driver's handles(device.get_vendor(), ..)
\* starts with the vendor read; after the last driver the guard is dropped.
SweepDrivers ==
    /\ pc["init"] = "drivers" /\ pend["init"] = "none"
    /\ IF sw.idx <= Len(table)
       THEN /\ OutAddress("init", PciHeaderNew(sw.bus, sw.device, sw.function), 0,
                          "read", Zero32)
            /\ pc' = [pc EXCEPT !["init"] = "h_vendor"]
            /\ UNCHANGED lock
       ELSE /\ lock' = Unlocked("init")
            /\ pc' = [pc EXCEPT !["init"] = "next"]
            /\ NoPort
    /\ UNCHANGED <<table, sweepVars>>
    /\ SweepFrame

\* Vendor::new(id); the second argument, device.get_device(), is read.
SweepHandlesVendor ==
    /\ pc["init"] = "h_vendor" /\ pend["init"] = "none"
    /\ sw' = [sw EXCEPT !.vendor = VendorNew(FieldNat(GetBits(ret["init"], 0, 16), 0, 16))]
    /\ OutAddress("init", PciHeaderNew(sw.bus, sw.device, sw.function), 8, "read", Zero32)
    /\ pc' = [pc EXCEPT !["init"] = "h_device"]
    /\ UNCHANGED <<lock, table, calls, probes>>
    /\ SweepFrame

\* driver.handle.handles(vendor, device type) is called, and when it returns
\* true driver.handle.start(&device, offset_table) is.
SweepHandles ==
    /\ pc["init"] = "h_device" /\ pend["init"] = "none"
    /\ LET id == ret["init"]
           device_type == DeviceTypeNew(FieldNat(GetBits(id, 24, 32), 0, 8),
                                        FieldNat(GetBits(id, 16, 24), 0, 8))
           h == table[sw.idx]
           call(kind) == [kind |-> kind, fn |-> Here(sw), slot |-> sw.idx, handle |-> h,
                          vendor_id |-> sw.vendor_id, vendor |-> sw.vendor,
                          device_type |-> device_type]
       IN  IF DriverHandles(h, sw.vendor, device_type)
           THEN /\ calls' = calls \o <<call("handles"), call("start")>>
                /\ pc' = [pc EXCEPT !["init"] = "in_start"]
                /\ UNCHANGED sw
           ELSE /\ calls' = Append(calls, call("handles"))
                /\ pc' = [pc EXCEPT !["init"] = "drivers"]
                /\ sw' = [sw EXCEPT !.idx = NextDriver(sw.idx, Len(table))]
    /\ NoPort
    /\ UNCHANGED <<lock, table, probes>>
    /\ SweepFrame

\* The start action returns.
StartReturns ==
    /\ pc["init"] = "in_start" /\ ~DriverStartRegisters(table[sw.idx])
    /\ sw' = [sw EXCEPT !.idx = AfterStart(sw.idx, Len(table))]
    /\ pc' = [pc EXCEPT !["init"] = "drivers"]
    /\ NoPort
    /\ UNCHANGED <<lock, table, calls, probes>>
    /\ SweepFrame

\* The start action calls register_device_driver.
StartRegisters ==
    /\ pc["init"] = "in_start" /\ DriverStartRegisters(table[sw.idx])
    /\ want' = [want EXCEPT !["init"] = "any"]
    /\ regs' = [regs EXCEPT !.called = @ + 1, !.asked["any"] = @ + 1]
    /\ pc' = [pc EXCEPT !["init"] = "reg_lock"]
    /\ NoPort
    /\ UNCHANGED <<lock, table, sweepVars>>
    /\ UNCHANGED <<board, cfg, ret, accVars, libVars>>

\* The body of the function loop is over.
SweepNext ==
    /\ pc["init"] = "next"
    /\ Advance
    /\ UNCHANGED <<lock, table, calls>>
    /\ SweepFrame

\* One step of init.
Sweep ==
    \/ InitStart
    \/ SweepHeaderType
    \/ SweepProbe
    \/ SweepLogVendor
    \/ SweepLock
    \/ SweepDrivers
    \/ SweepHandlesVendor
    \/ SweepHandles
    \/ StartReturns
    \/ StartRegisters
    \/ SweepNext
    \/ DataIn("init")
    \/ RegisterLock("init")
    \/ RegisterPush("init")

\* ------------------------------------------------------------ pure functions, called on their own
\* No call of a pure function.
PureIdle == [op |-> "none", in |-> <<>>, done |-> FALSE, out |-> <<>>]

\* A call of function op with input in that has not returned yet.
PureCall(op, in) == [op |-> op, in |-> in, done |-> FALSE, out |-> <<>>]

\* PciHeader::new(bus, device, function), then bus(), device() and function().
HeaderRoundTrip ==
    /\ pure.op = "header" /\ ~pure.done
    /\ LET self == PciHeaderNew(pure.in[1], pure.in[2], pure.in[3])
       IN  pure' = [pure EXCEPT !.done = TRUE,
                                !.out = [self |-> self,
                                         bus |-> FieldNat(HeaderBus(self), 0, 8),
                                         device |-> FieldNat(HeaderDevice(self), 0, 8),
                                         function |-> FieldNat(HeaderFunction(self), 0, 8)]]
    /\ UNCHANGED <<pciVars, server, netdev>>

\* Vendor::new(id).
VendorClassify ==
    /\ pure.op = "vendor" /\ ~pure.done
    /\ pure' = [pure EXCEPT !.done = TRUE, !.out = VendorNew(pure.in)]
    /\ UNCHANGED <<pciVars, server, netdev>>

\* DeviceType::new(base_class, sub_class).
DeviceTypeClassify ==
    /\ pure.op = "device_type" /\ ~pure.done
    /\ pure' = [pure EXCEPT !.done = TRUE, !.out = DeviceTypeNew(pure.in[1], pure.in[2])]
    /\ UNCHANGED <<pciVars, server, netdev>>

\* ------------------------------------------------------------ spin::RwLock
\* The threads that call into the system server and into a network device.
Threads == {"t1", "t2"}

RwFree == [writer |-> "none", readers |-> {}]

\* A write lock handed out whatever the state of the lock.
CanWriteAlways(rw) == TRUE

\* RwLock::write spins until there is no writer and no reader.
CanWrite(rw) == rw.writer = "none" /\ rw.readers = {}

\* RwLock::read spins until there is no writer.
CanRead(rw) == rw.writer = "none"

\* ------------------------------------------------------------ the system server
\* The largest process id of the model.
MaxPid == 2

Pids == 1..MaxPid

\* The service names of the model.
Names == {"wm", "fs"}

\* HashMap::with_capacity(24): no service.
NoServices == [n \in {} |-> 0]

\* The results of the calls: Ok(value) and Err(err).
Ok(value) == [ok |-> TRUE, value |-> value]

Err(err) == [ok |-> FALSE, err |-> err]

ThreadIdle == [pc |-> "idle", op |-> "none", pid |-> 0, name |-> "", vacant |-> FALSE,
               result |-> Err("none")]

\* SystemServer::new().
ServerNew == [services |-> NoServices, rw |-> RwFree, th |-> [t \in Threads |-> ThreadIdle]]

\* VacantEntry::insert(pid): the name is bound to pid.
Inserted(services, name, pid) == (name :> pid) @@ services

ServerFrame == UNCHANGED <<pciVars, pure, netdev>>

\* announce(pid, name) is called: let name = name.to_string().
AnnounceCall(t, pid, name) ==
    /\ server.th[t].pc = "idle"
    /\ server' = [server EXCEPT !.th[t] = [ThreadIdle EXCEPT !.pc = "write", !.op = "announce",
                                                              !.pid = pid, !.name = name]]
    /\ ServerFrame

\* self.services.write().
AnnounceLock(t) ==
    /\ server.th[t].pc = "write" /\ CanWrite(server.rw)
    /\ server' = [server EXCEPT !.rw.writer = t, !.th[t].pc = "entry"]
    /\ ServerFrame

\* .entry(name): Occupied or Vacant.
AnnounceEntry(t) ==
    /\ server.th[t].pc = "entry"
    /\ server' = [server EXCEPT !.th[t].vacant = server.th[t].name \notin DOMAIN server.services,
                                 !.th[t].pc = "match"]
    /\ ServerFrame

\* Occupied(_) => Err(AlreadyProvided); Vacant(entry) => { entry.insert(pid); Ok(()) };
\* the write guard is dropped.
AnnounceMatch(t) ==
    /\ server.th[t].pc = "match"
    /\ LET th == server.th[t]
       IN  server' = [server EXCEPT
                         !.services = IF th.vacant THEN Inserted(@, th.name, th.pid) ELSE @,
                         !.rw.writer = IF @ = t THEN "none" ELSE @,
                         !.th[t].result = IF th.vacant THEN Ok(0) ELSE Err("AlreadyProvided"),
                         !.th[t].pc = "idle"]
    /\ ServerFrame

\* discover(name) is called: let name = name.to_string().
DiscoverCall(t, name) ==
    /\ server.th[t].pc = "idle"
    /\ server' = [server EXCEPT !.th[t] = [ThreadIdle EXCEPT !.pc = "read", !.op = "discover",
                                                              !.name = name]]
    /\ ServerFrame

\* self.services.read().
DiscoverLock(t) ==
    /\ server.th[t].pc = "read" /\ CanRead(server.rw)
    /\ server' = [server EXCEPT !.rw.readers = @ \cup {t}, !.th[t].pc = "get"]
    /\ ServerFrame

\* .get(&name).copied().ok_or(NotFound); the read guard is dropped.
DiscoverGet(t) ==
    /\ server.th[t].pc = "get"
    /\ LET th == server.th[t]
       IN  server' = [server EXCEPT
                         !.rw.readers = @ \ {t},
                         !.th[t].result = IF th.name \in DOMAIN server.services
                                          THEN Ok(server.services[th.name])
                                          ELSE Err("NotFound"),
                         !.th[t].pc = "idle"]
    /\ ServerFrame

\* One step of a thread that calls the system server.
Client(t) ==
    \/ \E pid \in Pids, name \in Names : AnnounceCall(t, pid, name)
    \/ AnnounceLock(t)
    \/ AnnounceEntry(t)
    \/ AnnounceMatch(t)
    \/ \E name \in Names : DiscoverCall(t, name)
    \/ DiscoverLock(t)
    \/ DiscoverGet(t)

\* ------------------------------------------------------------ NetworkDevice
\* Ipv4Addr::new([192, 168, 100, 0]), the address that NetworkDevice::new assigns.
StaticIp == <<192, 168, 100, 0>>

\* Ipv4Addr::default().
UnspecifiedAddr == <<0, 0, 0, 0>>

\* The addresses handed to the setters.
Addrs == {StaticIp, <<10, 0, 2, 15>>, <<255, 255, 255, 0>>}

NetIdle == [pc |-> "idle", op |-> "none", arg |-> <<>>, result |-> <<>>]

\* NetworkDevice::new(driver).
NetworkDeviceNew ==
    [metadata |-> [ip |-> StaticIp, subnet_mask |-> UnspecifiedAddr], rw |-> RwFree,
     th |-> [t \in Threads |-> NetIdle]]

NetOps == {"set_ip", "set_subnet_mask", "ip", "subnet_mask"}

NetFrame == UNCHANGED <<pciVars, pure, server>>

\* A method of the device is called.
NetCall(t, op, arg) ==
    /\ netdev.th[t].pc = "idle"
    /\ netdev' = [netdev EXCEPT !.th[t] = [pc |-> "lock", op |-> op,
                                            arg |-> IF op \in {"set_ip", "set_subnet_mask"}
                                                    THEN arg ELSE <<>>,
                                            result |-> <<>>]]
    /\ NetFrame

\* self.metadata.write() in the setters, self.metadata.read() in the getters.
NetLock(t) ==
    /\ netdev.th[t].pc = "lock"
    /\ IF netdev.th[t].op \in {"set_ip", "set_subnet_mask"}
       THEN /\ CanWrite(netdev.rw)
            /\ netdev' = [netdev EXCEPT !.rw.writer = t, !.th[t].pc = "held"]
       ELSE /\ CanRead(netdev.rw)
            /\ netdev' = [netdev EXCEPT !.rw.readers = @ \cup {t}, !.th[t].pc = "held"]
    /\ NetFrame

\* set_ip: self.metadata.write().ip = ip.
SetIp(t) ==
    /\ netdev.th[t].pc = "held" /\ netdev.th[t].op = "set_ip"
    /\ netdev' = [netdev EXCEPT !.metadata.ip = netdev.th[t].arg,
                                 !.rw.writer = "none", !.th[t].pc = "idle"]
    /\ NetFrame

\* set_subnet_mask: self.metadata.write().ip = mask.
SetSubnetMask(t) ==
    /\ netdev.th[t].pc = "held" /\ netdev.th[t].op = "set_subnet_mask"
    /\ netdev' = [netdev EXCEPT !.metadata.ip = netdev.th[t].arg,
                                 !.rw.writer = "none", !.th[t].pc = "idle"]
    /\ NetFrame

\* ip: self.metadata.read().ip.
Ip(t) ==
    /\ netdev.th[t].pc = "held" /\ netdev.th[t].op = "ip"
    /\ netdev' = [netdev EXCEPT !.th[t].result = netdev.metadata.ip,
                                 !.rw.readers = @ \ {t}, !.th[t].pc = "idle"]
    /\ NetFrame

\* subnet_mask: self.metadata.read().subnet_mask.
SubnetMask(t) ==
    /\ netdev.th[t].pc = "held" /\ netdev.th[t].op = "subnet_mask"
    /\ netdev' = [netdev EXCEPT !.th[t].result = netdev.metadata.subnet_mask,
                                 !.rw.readers = @ \ {t}, !.th[t].pc = "idle"]
    /\ NetFrame

\* One step of a thread that uses the device.
NetUser(t) ==
    \/ \E op \in NetOps, arg \in Addrs : NetCall(t, op, arg)
    \/ NetLock(t)
    \/ SetIp(t)
    \/ SetSubnetMask(t)
    \/ Ip(t)
    \/ SubnetMask(t)

\* ------------------------------------------------------------ initial states
ResetCfg(b) == [k \in DOMAIN Board(b) |-> [o \in DOMAIN Board(b)[k] |-> Board(b)[k][o].val]]

SwInit ==
    [bus |-> 0, device |-> 0, function |-> 0, function_count |-> 0, vendor_id |-> 0,
     vendor |-> [variant |-> "Unknown", id |-> 0], idx |-> 0]

\* Outside the PCI driver nothing has been called.
LibInit == pure = PureIdle /\ server = ServerNew /\ netdev = NetworkDeviceNew

\* The PCI driver before init and before any call, on one of the machines.
PciInit(boards) ==
    /\ board \in boards
    /\ cfg = ResetCfg(board)
    /\ addrPort = Zero32
    /\ pend = [c \in Contexts |-> "none"]
    /\ wval = [c \in Contexts |-> Zero32]
    /\ ret = [c \in Contexts |-> Zero32]
    /\ req = [c \in Contexts |-> [self |-> Zero32, offset |-> 0, address |-> Zero32]]
    /\ pc = [c \in Contexts |-> IF c = "init" THEN "boot" ELSE "idle"]
    /\ acc = [c \in Contexts |-> AccInit]
    /\ snap = [c \in Contexts |-> <<>>]
    /\ left = [c \in Contexts |-> IF c = "init" THEN 0 ELSE MaxCalls]
    /\ lock = "free"
    /\ want = [c \in Contexts |-> "none"]
    /\ table = <<>>
    /\ regs = [called |-> 0, returned |-> 0, asked |-> [h \in Handles |-> 0]]
    /\ sw = SwInit
    /\ calls = <<>>
    /\ probes = [count |-> 0, last |-> <<>>, found |-> {}]

InitOn(boards) == PciInit(boards) /\ LibInit

\* ------------------------------------------------------------ accessor specifications
BarBoards == {"barsA", "barsB", "barsC"}

InitBar == InitOn(BarBoards)

\* One context calling the accessor methods, one call after the other.
NextBar == Accessor("ctxA") \/ RawAccess("ctxA")

SpecBar == InitBar /\ [][NextBar]_vars

\* One step of a context that only reads vendor ids.
Reader(c) ==
    \/ \E t \in AccTargets : GetVendorIdCall(c, t)
    \/ GetVendorIdRet(c)
    \/ DataIn(c)

\* Two contexts concurrently: one calling the accessor methods, one reading vendor ids.
NextCam == Accessor("ctxA") \/ Reader("ctxB")

SpecCam == InitBar /\ [][NextCam]_vars

\* ------------------------------------------------------------ the decode specification
\* Raw BAR values with bit 0 clear: every combination of the width bits and the
\* prefetchable bit, with base address 0 and 0xFEB00000.
DecodeRaws == {BitOr(W(h, 0), NatToWord(2 * n)) : h \in {0, 65200}, n \in 0..7}

\* Probe readbacks: all-zero, flag bits only, a 4 KiB, a 1 MiB and a 2 GiB window.
DecodeReadbacks == {Zero32, W(0, 12), W(65535, 61440), W(65520, 4), W(32768, 0)}

\* get_bar of the present function, just after its restoring write, with any raw
\* value and any readback the data port may have delivered.
InitDecode ==
    /\ board \in BarBoards
    /\ cfg = ResetCfg(board)
    /\ \E bar \in 0..MaxBar, raw \in DecodeRaws, readback \in DecodeReadbacks :
           LET self == HeaderOf(<<0, 3, 0>>)
               offset == 16 + bar * 4
           IN  /\ acc = [c \in Contexts |->
                            IF c = "ctxA"
                            THEN [AccInit EXCEPT !.op = "get_bar", !.fn = <<0, 3, 0>>,
                                                 !.self = self, !.bar = bar, !.offset = offset,
                                                 !.raw = raw, !.prefetchable = GetBit(raw, 3),
                                                 !.address = Shl(GetBits(raw, 4, 32), 4),
                                                 !.readback = readback]
                            ELSE AccInit]
               /\ addrPort = ConfigAddress(self, offset)
               /\ req = [c \in Contexts |->
                            IF c = "ctxA"
                            THEN [self |-> self, offset |-> offset,
                                  address |-> ConfigAddress(self, offset)]
                            ELSE [self |-> Zero32, offset |-> 0, address |-> Zero32]]
               /\ wval = [c \in Contexts |-> IF c = "ctxA" THEN Shl(GetBits(raw, 4, 32), 4)
                                                            ELSE Zero32]
               /\ ret = [c \in Contexts |-> IF c = "ctxA" THEN readback ELSE Zero32]
    /\ pend = [c \in Contexts |-> "none"]
    /\ pc = [c \in Contexts |-> IF c = "init" THEN "boot"
                                 ELSE IF c = "ctxA" THEN "bar_restore" ELSE "idle"]
    /\ snap = [c \in Contexts |-> IF c = "ctxA" THEN cfg ELSE <<>>]
    /\ left = [c \in Contexts |-> 0]
    /\ lock = "free"
    /\ want = [c \in Contexts |-> "none"]
    /\ table = <<>>
    /\ regs = [called |-> 0, returned |-> 0, asked |-> [h \in Handles |-> 0]]
    /\ sw = SwInit
    /\ calls = <<>>
    /\ probes = [count |-> 0, last |-> <<>>, found |-> {}]
    /\ LibInit

\* The rest of get_bar: the decode, and for a 64-bit window the read of the next slot.
NextDecode == GetBarSize("ctxA") \/ DataIn("ctxA") \/ GetBarHigh("ctxA")

SpecDecode == InitDecode /\ [][NextDecode]_vars

\* ------------------------------------------------------------ specifications outside the sweep
\* The machine that stands by while code outside the PCI driver runs.
IdleBoards == {"desktop"}

\* PciHeader::new and its accessors on every bus 0-255, device 0-31, function 0-7.
InitHeader ==
    /\ PciInit(IdleBoards)
    /\ pure \in {PureCall("header", t) : t \in (0..255) \X (0..31) \X (0..7)}
    /\ server = ServerNew /\ netdev = NetworkDeviceNew

SpecHeader == InitHeader /\ [][HeaderRoundTrip]_vars

\* Vendor::new on every 16-bit vendor id.
InitVendor ==
    /\ PciInit(IdleBoards)
    /\ pure \in {PureCall("vendor", id) : id \in 0..65535}
    /\ server = ServerNew /\ netdev = NetworkDeviceNew

SpecVendor == InitVendor /\ [][VendorClassify]_vars

\* DeviceType::new on every (base class, sub-class) byte pair.
InitDeviceType ==
    /\ PciInit(IdleBoards)
    /\ pure \in {PureCall("device_type", t) : t \in (0..255) \X (0..255)}
    /\ server = ServerNew /\ netdev = NetworkDeviceNew

SpecDeviceType == InitDeviceType /\ [][DeviceTypeClassify]_vars

\* Two threads calling the system server concurrently.
NextServer == Client("t1") \/ Client("t2")

SpecServer == InitOn(IdleBoards) /\ [][NextServer]_vars

\* Two threads using one network device concurrently.
NextNet == NetUser("t1") \/ NetUser("t2")

SpecNet == InitOn(IdleBoards) /\ [][NextNet]_vars

\* ------------------------------------------------------------ the boot specification
SweepBoards == {"desktop", "behind"}

Init == InitOn(SweepBoards)

\* init sweeps the buses while a boot context registers drivers.
Next == Sweep \/ Registrar("ctxA")

Spec == Init /\ [][Next]_vars

\* Every context keeps running: a step that can be taken is taken.
SpecLive == Spec /\ WF_vars(Next)

\* init sweeps the buses while two boot contexts register drivers.
NextSmp == Sweep \/ Registrar("ctxA") \/ Registrar("ctxB")

SpecSmp == Init /\ [][NextSmp]_vars

\* ------------------------------------------------------------ claims on the accessor
\* C1: configuration-space access is atomic under concurrency: between a
\* context's write of the address port and its own access of the data port no
\* other context touches the ports, so the data port still selects the register
\* that this context addressed.
C1_AccessIsAtomic == \A c \in Contexts : pend[c] # "none" => addrPort = req[c].address

\* The bits 7..0 that the address word must carry for a register offset.
AlignedOffset(offset) == offset - (offset % 4)

\* The word a context put on the address port is the encoding of its function
\* address and offset.
AddressWordExact ==
    \A c \in Contexts :
        pend[c] # "none" =>
            LET a == req[c].address
                t == acc[c].fn
            IN  /\ addrPort = a
                /\ 31 \in a
                /\ a \cap (24..30) = {}
                /\ FieldNat(a, 16, 24) = t[1]
                /\ FieldNat(a, 11, 16) = t[2]
                /\ FieldNat(a, 8, 11) = t[3]
                /\ FieldNat(a, 0, 8) = AlignedOffset(req[c].offset)

\* The step a context takes after writing the address port is its data-port access.
DataPortIsNext ==
    \A c \in Contexts :
        (pend[c] # "none" /\ <<pc[c], pend[c], req[c], acc[c]>> # <<pc'[c], pend'[c], req'[c], acc'[c]>>)
            => (pend'[c] = "none" /\ pc'[c] = pc[c] /\ req'[c] = req[c] /\ addrPort' = addrPort)

\* C2: the word that read and write put on the address port has bit 31 set,
\* bits 23-16 the bus, bits 15-11 the device, bits 10-8 the function, bits 7-0
\* the offset with its low 2 bits cleared and bits 30-24 zero, and the data port
\* is accessed as the next port operation of the call.
C2_AddressWord == [](AddressWordExact) /\ [][DataPortIsNext]_vars

\* C2 witness: an unaligned offset on the highest function address has been put
\* on the address port and its data-port access is due.
C2_Witness ==
    /\ pend["ctxA"] = "read" /\ acc["ctxA"].fn = <<255, 31, 7>> /\ acc["ctxA"].offset = 255
    /\ addrPort = W(33023, 65532)

\* The BAR slots of a register file.
BarOffsets == {16 + 4 * n : n \in 0..5}

\* C3: get_bar never leaves a BAR mutated: once it has returned, with a
\* descriptor or with None, every BAR slot of every function reads as it did
\* before the call.
C3_BarsUnchanged ==
    \A c \in Contexts :
        (pc[c] = "idle" /\ acc[c].op = "get_bar") =>
            \A k \in DOMAIN cfg : \A o \in BarOffsets \cap DOMAIN cfg[k] :
                cfg[k][o] = snap[c][k][o]

\* ------------------------------------------------------------ claims on the sweep
\* C4: no handles predicate and no start action is ever invoked for a function
\* address whose vendor-id read returned 0xFFFF.
C4_NoDispatchToAbsent == \A i \in DOMAIN calls : calls[i].vendor_id # 65535

\* C4 witness: the sweep has skipped absent functions and has dispatched a present one.
C4_Witness ==
    /\ calls # <<>> /\ calls[Len(calls)].kind = "start"
    /\ probes.count > Cardinality(probes.found) + 1

\* What the machine holds at a function address: its vendor and device type.
VendorAt(k) == VendorNew(FieldNat(Board(board)[k][0].val, 0, 16))

DeviceTypeAt(k) ==
    DeviceTypeNew(FieldNat(Board(board)[k][8].val, 24, 32), FieldNat(Board(board)[k][8].val, 16, 24))

\* The slots 1..n of the registry whose driver handles the function at k, ascending.
RECURSIVE MatchingSlots(_, _)
MatchingSlots(k, n) ==
    IF n = 0 THEN <<>>
    ELSE IF DriverHandles(table[n], VendorAt(k), DeviceTypeAt(k))
    THEN Append(MatchingSlots(k, n - 1), n)
    ELSE MatchingSlots(k, n - 1)

\* The registry slots that received a start call for the function at k, in call order.
RECURSIVE StartedSlots(_, _)
StartedSlots(k, n) ==
    IF n = 0 THEN <<>>
    ELSE IF calls[n].kind = "start" /\ calls[n].fn = k
    THEN Append(StartedSlots(k, n - 1), calls[n].slot)
    ELSE StartedSlots(k, n - 1)

\* C5: for every discovered function, every registered driver whose handles
\* predicate is true of it receives exactly one start call, in registration
\* order, and the loop goes on after the first match: while the loop is at
\* driver idx the start calls made are those of the matching drivers before it
\* (with idx itself while its start runs), so at the end of the loop they are
\* those of all matching drivers.
C5_AllMatchingStarted ==
    /\ pc["init"] \in {"drivers", "h_vendor", "h_device"}
           => StartedSlots(Here(sw), Len(calls)) = MatchingSlots(Here(sw), sw.idx - 1)
    /\ pc["init"] \in {"in_start", "reg_lock", "reg_push"}
           => StartedSlots(Here(sw), Len(calls)) = MatchingSlots(Here(sw), sw.idx)
    /\ \A i \in DOMAIN calls :
           calls[i].kind = "start" =>
               /\ i > 1 /\ calls[i - 1] = [calls[i] EXCEPT !.kind = "handles"]
               /\ DriverHandles(calls[i].handle, VendorAt(calls[i].fn), DeviceTypeAt(calls[i].fn))

\* C5 witness: the loop over the drivers has ended with two start calls for the
\* SATA controller, to the drivers in slots 1 and 2 in that order.
C5_Witness ==
    /\ pc["init"] = "drivers" /\ sw.idx = 3 /\ Len(table) = 2
    /\ Here(sw) = <<0, 31, 0>>
    /\ StartedSlots(Here(sw), Len(calls)) = <<1, 2>>

\* C6: the sweep walks the entire address space: when it is over, every
\* function present on any bus, the highest included, has been discovered.
C6_WholeSpaceSwept == pc["init"] = "done" => DOMAIN cfg \subseteq probes.found

\* C7: the registry lock is never held while a configuration-space port round
\* trip is in progress nor while a start action is executing.
C7_LockNotHeldAcrossIo ==
    \A c \in Contexts :
        lock = c => (pend[c] = "none" /\ pc[c] \notin {"in_start", "reg_lock"})

\* C8: register_device_driver never fails to return: a call waits only for the
\* lock, so no call ever waits for a lock whose holder is itself waiting for it.
C8_RegisterReturns ==
    \A c \in Contexts :
        pc[c] = "reg_lock" => (lock = "free" \/ pc[lock] # "reg_lock")

\* The most vendor-id probes a sweep may issue: 256 x 32 x 8 on the real machine.
ProbeLimit == (MaxBus + 1) * DeviceLoopEnd * MultiFunctionCount

\* A driver whose start action does not return has been handed to the registry.
NonReturningDriver ==
    \/ \E i \in DOMAIN table : DriverStartRegisters(table[i])
    \/ \E c \in Contexts : pc[c] \in {"reg_lock", "reg_push"} /\ DriverStartRegisters(want[c])

\* C9: enumeration runs to completion: with drivers whose handles and start
\* actions return, init ends, after at most 256 x 32 x 8 vendor-id probes.
C9_SweepTerminates ==
    /\ [](probes.count <= ProbeLimit)
    /\ <>(pc["init"] = "done" \/ NonReturningDriver)

\* C9 witness: a sweep is over that issued 8 probes for every device of every bus swept.
C9_Witness ==
    /\ pc["init"] = "done" /\ ~NonReturningDriver
    /\ probes.count = BusLoopEnd * DeviceLoopEnd * MultiFunctionCount

\* C10: the registry is append-only and never deduplicates: every step leaves
\* it alone or appends the handle of the call that returns (so every earlier
\* content is a prefix of every later one, in call order), and its length is the
\* number of register calls that have returned.
C10_AppendOnly ==
    /\ [](Len(table) = regs.returned)
    /\ [][\/ table' = table
          \/ \E c \in Contexts : pc[c] = "reg_push" /\ table' = table \o <<want[c]>>]_vars

\* C10 witness: the same handle registered twice holds two slots.
C10_Witness == table = <<"any", "any">> /\ regs.returned = 2

\* ------------------------------------------------------------ claims on the registry under concurrency
\* The number of slots of the registry that hold handle h.
Slots(h) == Cardinality({i \in DOMAIN table : table[i] = h})

\* No register_device_driver call is in progress.
AllReturned == \A c \in Contexts : pc[c] \notin {"reg_lock", "reg_push"}

\* C11: concurrent registration does not corrupt the registry: the pushes of
\* different contexts exclude each other, and once all calls have returned the
\* registry holds exactly one entry per call, none lost and none duplicated.
C11_NoLostEntry ==
    /\ \A c \in Contexts : pc[c] = "reg_push" => lock = c
    /\ AllReturned =>
           /\ Len(table) = regs.called
           /\ \A h \in Handles : Slots(h) = regs.asked[h]

\* C11 witness: two contexts have registered the same driver while the sweep was
\* running, one of them having waited for the other's push, and both calls returned.
C11_Witness ==
    /\ AllReturned /\ pc["init"] # "boot"
    /\ want["ctxA"] = "sata" /\ want["ctxB"] = "sata"
    /\ table = <<"sata", "sata">>

\* ------------------------------------------------------------ claims on the sweep's order
\* The program points of init inside the loop over the drivers.
DispatchPoints == {"drivers", "h_vendor", "h_device", "in_start", "reg_lock", "reg_push"}

RECURSIVE HandlesSlots(_, _)
HandlesSlots(k, n) ==
    IF n = 0 THEN <<>>
    ELSE IF calls[n].kind = "handles" /\ calls[n].fn = k
    THEN Append(HandlesSlots(k, n - 1), calls[n].slot)
    ELSE HandlesSlots(k, n - 1)

\* The sequence 1, 2, .., n.
UpTo(n) == [i \in 1..n |-> i]

\* C13: every driver registered before init begins is considered for every
\* discovered function: the driver loop of a function ends having called the
\* handles predicate of every slot the registry had when the loop took the lock
\* (the registry only grows, so these include every slot filled before init),
\* each once and in order, with the function's vendor and device-type
\* classification, and the next function address is probed only after that.
C13_AllConsidered ==
    /\ [](pc["init"] = "next" => HandlesSlots(Here(sw), Len(calls)) = UpTo(sw.idx - 1))
    /\ [](\A i \in DOMAIN calls :
             /\ calls[i].slot \in DOMAIN table /\ calls[i].handle = table[calls[i].slot]
             /\ calls[i].vendor = VendorAt(calls[i].fn)
             /\ calls[i].device_type = DeviceTypeAt(calls[i].fn))
    /\ [][(lock = "init" /\ lock' # "init") => sw.idx = Len(table) + 1]_vars
    /\ [][Len(table') >= Len(table) /\ SubSeq(table', 1, Len(table)) = table]_vars
    /\ [][(Here(sw') # Here(sw) /\ Here(sw) \in probes.found) => pc["init"] = "next"]_vars

\* C13 witness: two drivers were registered before the first function was
\* found, and the driver loop of a later function has ended with both considered.
C13_Witness ==
    /\ pc["init"] = "next" /\ Len(table) = 2 /\ sw.idx = 3
    /\ Cardinality(probes.found) >= 2
    /\ HandlesSlots(<<0, 0, 0>>, Len(calls)) = <<1, 2>>
    /\ HandlesSlots(Here(sw), Len(calls)) = <<1, 2>>

\* Lexicographic order of function addresses <<bus, device, function>>.
LexLess(a, b) ==
    \/ a[1] < b[1]
    \/ a[1] = b[1] /\ a[2] < b[2]
    \/ a[1] = b[1] /\ a[2] = b[2] /\ a[3] < b[3]

\* Whether the machine reports function 0 of <<bus, device>> as multi-function.
MultiAt(bus, device) == GetBit(ConfigRead(cfg, ConfigAddress(PciHeaderNew(bus, device, 0), 12)), 23)

\* The function address that the hardware contents put after address a in a sweep.
ProbeAfter(a) ==
    IF a = <<>> THEN <<0, 0, 0>>
    ELSE IF MultiAt(a[1], a[2]) /\ a[3] + 1 < 8 THEN <<a[1], a[2], a[3] + 1>>
    ELSE IF a[2] + 1 < 32 THEN <<a[1], a[2] + 1, 0>>
    ELSE <<a[1] + 1, 0, 0>>

C15_MultiFunction ==
    /\ [](pc["init"] \notin {"boot", "hdr", "done"} =>
             /\ sw.function_count = (IF MultiAt(sw.bus, sw.device) THEN 8 ELSE 1)
             /\ sw.function < sw.function_count
             /\ probes.last = Here(sw))
    /\ [][probes'.count # probes.count =>
             /\ probes'.count = probes.count + 1
             /\ IF pc["init"] = "hdr"
                THEN probes'.last = <<sw.bus, sw.device, 0>>
                ELSE probes'.last = <<sw.bus, sw.device, sw.function + 1>>]_vars
    /\ [][(pc'["init"] \in {"hdr", "done"} /\ pc["init"] \notin {"boot", "hdr", "done"})
             => sw.function = sw.function_count - 1]_vars

\* C15 witness: init leaves a single-function device after one probe, having
\* probed all 8 functions of the multi-function device before it.
C15_Witness ==
    /\ pc["init"] = "next" /\ Here(sw) = <<0, 5, 0>> /\ sw.function_count = 1
    /\ probes.count = 1 + 4 * 8 + 1

\* C16: the sentinel check is the sole existence test: every configuration-space
\* access of the sweep to a function address is either its vendor-id read at
\* offset 0x00 or follows a vendor-id read of that address that did not return
\* 0xFFFF.
C16_VendorReadFirst ==
    pend["init"] # "none" =>
        \/ req["init"].offset = 0 /\ FnKey(req["init"].address) = probes.last
        \/ FnKey(req["init"].address) \in probes.found

\* ------------------------------------------------------------ claims on the BAR decode
\* C17: for every raw BAR value with bit 0 set, get_bar returns an I/O window
\* whose base port address is the raw value with its low 2 bits masked off,
\* bits 2-31 staying in place.
C17_IoBaseMasked ==
    \A c \in Contexts :
        (pc[c] = "idle" /\ acc[c].op = "get_bar" /\ GetBit(acc[c].raw, 0)) =>
            acc[c].result = [kind |-> "IO", port |-> acc[c].raw \ {0, 1}]

\* Context c is past the probe of a memory BAR whose readback was not all-zero,
\* and has left get_bar.
MemoryBarDone(c) ==
    /\ acc[c].op = "get_bar" /\ pc[c] \in {"idle", "panic"}
    /\ ~GetBit(acc[c].raw, 0) /\ acc[c].readback # Zero32

\* C18: for every raw BAR value with bit 0 clear whose readback is not all-zero,
\* get_bar decodes by bits 1-2: 00 gives a 32-bit memory window, 10 a 64-bit
\* one, 01 and 11 no resource; prefetchable is bit 3 of the raw value and the low
\* 32 bits of the base address are the raw value with its low 4 bits cleared.
C18_MemoryDecode ==
    \A c \in Contexts :
        MemoryBarDone(c) =>
            LET a == acc[c]
                width == FieldNat(a.raw, 1, 3)
            IN  CASE width = 0 ->
                       /\ a.result.kind = "Memory32"
                       /\ a.result.prefetchable = GetBit(a.raw, 3)
                       /\ a.result.address = a.raw \ (0..3)
                  [] width = 2 ->
                       /\ a.result.kind = "Memory64"
                       /\ a.result.prefetchable = GetBit(a.raw, 3)
                       /\ a.result.address \cap (0..31) = a.raw \ (0..3)
                  [] OTHER -> a.result = NoBar

\* C19: every memory window has a power-of-two size: for every non-zero
\* readback the size is 2 to the number of trailing zero bits of the readback
\* with its low 4 bits cleared, and computing it never overflows 32 bits.
C19_SizePowerOfTwo ==
    \A c \in Contexts :
        MemoryBarDone(c) =>
            /\ pc[c] # "panic"
            /\ acc[c].result.kind \in {"Memory32", "Memory64"} =>
                   LET tz == TrailingZeros(MaskedReadback(acc[c].readback))
                   IN  tz <= 31 /\ acc[c].result.size = {tz}

\* C20: an unimplemented BAR is a normal outcome: whenever the readback after
\* writing all-ones to a memory BAR slot is all-zero, get_bar returns None
\* without a panic, whatever the width bits of the raw value are.
C20_UnimplementedIsNone ==
    \A c \in Contexts :
        (/\ acc[c].op = "get_bar" /\ ~GetBit(acc[c].raw, 0)
         /\ pc[c] \notin {"bar_raw", "bar_probe", "bar_readback", "bar_restore"}
         /\ acc[c].readback = Zero32)
            => (pc[c] = "idle" /\ acc[c].result = NoBar)

\* C20 witness: get_bar has returned None for a raw value with the 64-bit width
\* bits set whose readback was all-zero.
C20_Witness ==
    /\ pc["ctxA"] = "idle" /\ acc["ctxA"].op = "get_bar"
    /\ FieldNat(acc["ctxA"].raw, 1, 3) = 2 /\ acc["ctxA"].readback = Zero32
    /\ acc["ctxA"].result = NoBar

\* The value that slot bar + 1 of the function of context c's get_bar holds in file.
NextSlot(c, file) == ConfigRead(file, ConfigAddress(acc[c].self, acc[c].offset + 4))

\* C21: for a 64-bit memory BAR at slot n the returned base address has the
\* value of slot n+1 as its high 32 bits and the decoded low half as its low 32
\* bits; the size comes from the readback of slot n, and get_bar only reads
\* slot n+1: each of its writes goes to slot n and slot n+1 holds what it held.
C21_HighFromNextSlot ==
    \A c \in Contexts :
        acc[c].op = "get_bar" =>
            /\ pend[c] = "write" => req[c].offset = acc[c].offset
            /\ pend[c] = "read" =>
                   req[c].offset = (IF pc[c] = "bar_high" THEN acc[c].offset + 4
                                                         ELSE acc[c].offset)
            /\ (pc[c] = "idle" /\ acc[c].result.kind = "Memory64") =>
                   LET r == acc[c].result
                       tz == TrailingZeros(MaskedReadback(acc[c].readback))
                   IN  /\ {i - 32 : i \in r.address \cap (32..63)} = NextSlot(c, cfg)
                       /\ r.address \cap (0..31) = acc[c].raw \ (0..3)
                       /\ tz < 32 => r.size = SizeOf(tz)
                       /\ NextSlot(c, cfg) = NextSlot(c, snap[c])

\* C21 witness: get_bar(0) has returned the 64-bit window at 0x4_C0000000 of
\* 16 KiB, the 4 coming from slot 1.
C21_Witness ==
    /\ pc["ctxA"] = "idle" /\ acc["ctxA"].op = "get_bar" /\ acc["ctxA"].bar = 0
    /\ acc["ctxA"].result = [kind |-> "Memory64", address |-> W(49152, 0) \cup {34},
                             size |-> {14}, prefetchable |-> TRUE]
    /\ cfg[<<0, 3, 0>>][20] = W(0, 4)

\* ------------------------------------------------------------ claims on the command register
\* The dword at offset 0x04 of the function of context c's call, in file.
CommandOf(c, file) == ConfigRead(file, ConfigAddress(acc[c].self, 4))

\* C22: enable_bus_mastering is an idempotent read-modify-write of the command
\* register: its only write goes to offset 0x04 with the value read plus bit 2,
\* and is issued only when bit 2 was clear; after the call bit 2 is set and
\* every other bit of every register is as before; a call that finds bit 2 set
\* (as a second call does) changes nothing.
C22_BusMasteringIdempotent ==
    \A c \in Contexts :
        acc[c].op = "enable_bus_mastering" =>
            /\ pend[c] = "write" =>
                   /\ req[c].offset = 4
                   /\ 2 \notin CommandOf(c, snap[c])
                   /\ wval[c] = CommandOf(c, snap[c]) \cup {2}
            /\ pc[c] = "idle" =>
                   /\ CommandOf(c, cfg) = CommandOf(c, snap[c]) \cup {2}
                   /\ \A k \in DOMAIN cfg : \A o \in DOMAIN cfg[k] :
                          (k # acc[c].fn \/ o # 4) => cfg[k][o] = snap[c][k][o]
                   /\ 2 \in CommandOf(c, snap[c]) => cfg = snap[c]

\* C22 witness: a call has set bit 2 of a command register that read 0x0003.
C22_Witness ==
    /\ pc["ctxA"] = "idle" /\ acc["ctxA"].op = "enable_bus_mastering"
    /\ acc["ctxA"].fn = <<0, 3, 0>>
    /\ CommandOf("ctxA", snap["ctxA"]) = W(16, 3)
    /\ CommandOf("ctxA", cfg) = W(16, 7)

\* ------------------------------------------------------------ claims on functions behind an absent function 0
\* Function 0 of the device that init is at is absent.
NoFunctionZero == <<sw.bus, sw.device, 0>> \notin DOMAIN cfg

\* C26: the multi-function decision does not depend on function 0 being
\* present: the probe of function 0 of every device follows the read of its
\* header dword at 0x0C; when function 0 is absent that read returns all-ones,
\* bit 23 reads as set and all 8 functions of the device are probed; a function
\* 1-7 found behind an absent function 0 is offered to every driver and started
\* by those that match.
C26_AbsentFunctionZero ==
    /\ [][(probes'.count # probes.count /\ probes'.last[3] = 0) =>
             /\ pc["init"] = "hdr" /\ req["init"].offset = 12
             /\ FnKey(req["init"].address) = probes'.last
             /\ probes'.last \notin DOMAIN cfg =>
                    (ret["init"] = Ones32 /\ sw'.function_count = 8)]_vars
    /\ [](pc["init"] \notin {"boot", "hdr", "done"} /\ NoFunctionZero => sw.function_count = 8)
    /\ [][(pc'["init"] \in {"hdr", "done"} /\ pc["init"] \notin {"boot", "hdr", "done"}
            /\ NoFunctionZero) => sw.function = 7]_vars
    /\ [](pc["init"] = "next" /\ NoFunctionZero =>
             /\ sw.function >= 1 /\ Here(sw) \in DOMAIN cfg /\ Here(sw) \in probes.found
             /\ HandlesSlots(Here(sw), Len(calls)) = UpTo(sw.idx - 1)
             /\ StartedSlots(Here(sw), Len(calls)) = MatchingSlots(Here(sw), sw.idx - 1))
    /\ [](\A k \in DOMAIN cfg :
             (k[1] < BusLoopEnd /\ probes.last # <<>> /\ LexLess(k, probes.last))
                 => k \in probes.found)

\* C26 witness: the VGA function 1 behind the absent function 0 of device 0:2
\* has been started by a driver, and the sweep has gone on to function 7 of that device.
C26_Witness ==
    /\ board = "behind" /\ probes.last = <<0, 2, 7>>
    /\ \E i \in DOMAIN calls : calls[i].kind = "start" /\ calls[i].fn = <<0, 2, 1>>

\* ------------------------------------------------------------ claims on the pure functions
\* C23: for all bus 0-255, device 0-31 and function 0-7, PciHeader::new followed
\* by bus(), device() and function() returns the original triple, and different
\* triples give different Function Addresses: the address is the number
\* bus * 256 + device * 8 + function.
C23_HeaderRoundTrip ==
    (pure.op = "header" /\ pure.done) =>
        /\ <<pure.out.bus, pure.out.device, pure.out.function>> = pure.in
        /\ pure.out.self \cap (16..31) = {}
        /\ FieldNat(pure.out.self, 0, 16) = pure.in[1] * 256 + pure.in[2] * 8 + pure.in[3]

\* C23 witness: the highest triple has been encoded and decoded.
C23_Witness ==
    /\ pure.op = "header" /\ pure.done /\ pure.in = <<255, 31, 7>>
    /\ pure.out.self = W(0, 65535)

\* The raw id that a vendor classification stands for.
VendorRaw(v) ==
    CASE v.variant = "Intel" -> 32902
      [] v.variant = "AMD" -> 4130
      [] v.variant = "NVIDIA" -> 4318
      [] v.variant = "Qemu" -> 4660
      [] v.variant = "Unknown" -> v.id

\* C24: vendor classification is lossless: 0x8086, 0x1022, 0x10DE and 0x1234
\* give the known-vendor variants, every other id x gives Unknown(x), and the
\* raw id is recovered from every classification (so the mapping is injective).
C24_VendorLossless ==
    (pure.op = "vendor" /\ pure.done) =>
        /\ pure.out.variant \in {"Intel", "AMD", "NVIDIA", "Qemu", "Unknown"}
        /\ pure.out.variant = "Intel" <=> pure.in = 32902
        /\ pure.out.variant = "AMD" <=> pure.in = 4130
        /\ pure.out.variant = "NVIDIA" <=> pure.in = 4318
        /\ pure.out.variant = "Qemu" <=> pure.in = 4660
        /\ pure.out.variant = "Unknown" => pure.out = [variant |-> "Unknown", id |-> pure.in]
        /\ VendorRaw(pure.out) = pure.in

\* C24 witness: 0x5555 has been classified as Unknown(0x5555).
C24_Witness ==
    /\ pure.op = "vendor" /\ pure.done /\ pure.in = 21845
    /\ pure.out = [variant |-> "Unknown", id |-> 21845]

\* The base classes whose sub-classes DeviceType::new numbers otherwise than the
\* PCI class-code table: multimedia (0x04), memory (0x05) and satellite (0x0F).
RenumberedClasses == {4, 5, 15}

\* The class-code table for the variants of DeviceType: in the classes 0x04 and
\* 0x05 the "other" sub-class is 0x80 (as in every other class), and the
\* satellite sub-classes TV, audio, voice and data are 0x01-0x04.
ClassCodeTable ==
    SelectSeq(DeviceTypeArms, LAMBDA e : e[1] \notin RenumberedClasses)
    \o << <<4, 0, "VideoDevice">>, <<4, 1, "AudioDevice">>, <<4, 2, "TelephonyDevice">>,
          <<4, 128, "OtherMultimediaDevice">>,
          <<5, 0, "RamController">>, <<5, 1, "FlashController">>,
          <<5, 128, "OtherMemoryController">>,
          <<15, 1, "TvSatelliteCommunicationsController">>,
          <<15, 2, "AudioSatelliteCommunicationsController">>,
          <<15, 3, "VoiceSatelliteCommunicationsController">>,
          <<15, 4, "DataSatelliteCommunicationsController">> >>

\* The documented variant of a pair, Unknown for a pair that is not in the table.
Documented(base_class, sub_class) ==
    LET hits == {k \in 1..Len(ClassCodeTable) :
                    ClassCodeTable[k][1] = base_class /\ ClassCodeTable[k][2] = sub_class}
    IN  IF hits = {} THEN "Unknown" ELSE ClassCodeTable[CHOOSE k \in hits : TRUE][3]

\* C25: device-type classification is exact: every pair of the standardized
\* table gives its documented variant and every other pair gives Unknown.
C25_DeviceTypeExact ==
    (pure.op = "device_type" /\ pure.done) => pure.out = Documented(pure.in[1], pure.in[2])

\* ------------------------------------------------------------ claims on the system server
\* C27: a service name is bound at most once: a binding of services is never
\* changed or removed; an announce returns Ok exactly when it found the name
\* vacant, and then binds it to its pid, and otherwise returns AlreadyProvided
\* and leaves the whole map as it is; a discover returns the pid the name is
\* bound to, and NotFound for a name that is not bound - with announce and
\* discover calls of two threads interleaved.
C27_BoundOnce ==
    /\ [][\A n \in DOMAIN server.services :
             n \in DOMAIN server'.services /\ server'.services[n] = server.services[n]]_vars
    /\ [][\A t \in Threads :
             (server.th[t].pc = "match" /\ server'.th[t].pc = "idle") =>
                 LET th == server.th[t]
                 IN  IF th.name \in DOMAIN server.services
                     THEN /\ server'.th[t].result = Err("AlreadyProvided")
                          /\ server'.services = server.services
                     ELSE /\ server'.th[t].result = Ok(0)
                          /\ server'.services = (th.name :> th.pid) @@ server.services]_vars
    /\ [][\A t \in Threads :
             (server.th[t].pc = "get" /\ server'.th[t].pc = "idle") =>
                 /\ server'.services = server.services
                 /\ server'.th[t].result =
                        (IF server.th[t].name \in DOMAIN server.services
                         THEN Ok(server.services[server.th[t].name])
                         ELSE Err("NotFound"))]_vars
    /\ [](\A t \in Threads :
             server.th[t].pc \in {"entry", "match"} =>
                 (server.rw.writer = t /\ server.rw.readers = {}))
    /\ [](\A t \in Threads : server.th[t].pc = "get" => server.rw.writer = "none")

\* C27 witness: one thread has bound "wm" to pid 1, the other thread's announce
\* of "wm" for pid 2 has returned AlreadyProvided and the binding stands.
C27_Witness ==
    /\ server.services = ("wm" :> 1)
    /\ server.th["t1"] = [ThreadIdle EXCEPT !.op = "announce", !.pid = 1, !.name = "wm",
                                            !.vacant = TRUE, !.result = Ok(0)]
    /\ server.th["t2"] = [ThreadIdle EXCEPT !.op = "announce", !.pid = 2, !.name = "wm",
                                            !.result = Err("AlreadyProvided")]

\* ------------------------------------------------------------ claims on the network device
\* C28: the two metadata setters are independent: set_subnet_mask(m) makes
\* subnet_mask() m and leaves ip() as it was, set_ip(a) makes ip() a and leaves
\* subnet_mask() as it was.
C28_SettersIndependent ==
    [][\A t \in Threads :
          (netdev.th[t].pc = "held" /\ netdev'.th[t].pc = "idle") =>
              CASE netdev.th[t].op = "set_subnet_mask" ->
                     /\ netdev'.metadata.subnet_mask = netdev.th[t].arg
                     /\ netdev'.metadata.ip = netdev.metadata.ip
                [] netdev.th[t].op = "set_ip" ->
                     /\ netdev'.metadata.ip = netdev.th[t].arg
                     /\ netdev'.metadata.subnet_mask = netdev.metadata.subnet_mask
                [] OTHER -> netdev'.metadata = netdev.metadata]_vars
====
